---- MODULE Spec2Model ----
(***************************************************************************)
(* A model of nasa_apod_desktop.py: find_resolution, download_site,        *)
(* get_image_info, get_image, resize_image, the seed walk and the playlist *)
(* writer of create_desktop_background_scoll, and main from the fetch of   *)
(* today's page on.                                                        *)
(*                                                                         *)
(* The functions are modelled as Python evaluates their bodies, with the   *)
(* parameters holding values of their annotated types and the library      *)
(* calls (xrandr, urllib, glob, PIL) doing what they are called for.       *)
(* Command-line parsing and the module's imports are not modelled.         *)
(*                                                                         *)
(* Two specifications:                                                     *)
(*   SpecRes  find_resolution applied to every bounded input;              *)
(*   Spec     one run of main from line 463 on (FairSpec: the same with    *)
(*            weak fairness, every call of the run returning).             *)
(***************************************************************************)
EXTENDS Integers, Sequences, FiniteSets, TLC

VARIABLES
    \* ---- find_resolution ----
    res_type,           \* parameter res_type
    x, y,               \* parameters x, y: the fallback pair
    output,             \* what the regexes find in xrandr's output
    pcRes,              \* "call" | "returned"
    ret,                \* the returned pair
    \* ---- main and create_desktop_background_scoll ----
    pc,                 \* position of the run
    IMAGE_SCROLL, SEED_IMAGES, IMAGE_DURATION,
    disk,               \* the *.png files of DOWNLOAD_PATH
    scaled,             \* those whose dimensions equal the target resolution
    site_contents,      \* main's site_contents
    filename,           \* main's / create_desktop_background_scoll's filename
    images, days_back, seed_images_left, seed_site_contents,
    xml,                \* the playlist file: [written, entries]
    wallpaper,          \* what set_gnome_wallpaper was given
    net,                \* the run's requests for images: [opened, retrieved, src_tries]
    today               \* today's get_image call: [called, existed, outcome, value, save_to, wrote]

resVars == <<res_type, x, y, output, pcRes, ret>>
runVars == <<pc, IMAGE_SCROLL, SEED_IMAGES, IMAGE_DURATION, disk, scaled,
             site_contents, filename, images, days_back, seed_images_left,
             seed_site_contents, xml, wallpaper, net, today>>
vars == <<res_type, x, y, output, pcRes, ret,
          pc, IMAGE_SCROLL, SEED_IMAGES, IMAGE_DURATION, disk, scaled,
          site_contents, filename, images, days_back, seed_images_left,
          seed_site_contents, xml, wallpaper, net, today>>

(***************************************************************************)
(* Bounds.                                                                 *)
(***************************************************************************)
MaxOutputs == 3     \* connected outputs xrandr lists
MaxSeed == 3        \* largest SEED_IMAGES
MaxDays == 6        \* days the model lets the seed walk go back

(***************************************************************************)
(* Python values.  A regex group is a str; 0 is an int.  v is the number   *)
(* a digit string denotes.                                                 *)
(***************************************************************************)
PyInt(n) == [t |-> "int", v |-> n]
PyStr(n) == [t |-> "str", v |-> n]
\* Python's ==: a str never equals an int
PyEq(a, b) == a.t = b.t /\ a.v = b.v
\* int(): the number itself, from an int or from a digit string
ToInt(a) == a.v

(***************************************************************************)
(* find_resolution                                                         *)
(***************************************************************************)
ResolutionTypes == {"stretch", "largest", "default"}

\* the (group(1), group(2)) pairs of " connected ([0-9]+)x([0-9]+)+"
ConnectedPairs ==
    { <<1920, 1080>>, <<2560, 1440>>, <<1280, 720>>, <<1440, 2560>>, <<0, 1080>> }
\* the (group(1), group(2)) pairs of ".* current (.*?) x (.*?),.*"
CurrentPairs ==
    { <<1920, 1080>>, <<3840, 1080>>, <<0, 0>>, <<0, 1080>>, <<1920, 0>> }
FallbackPairs == { <<1024, 768>>, <<800, 600>> }

SeqsUpTo(S, n) == UNION { [1..k -> S] : k \in 0..n }

NoMatch == [found |-> FALSE, w |-> 0, h |-> 0]
Match(p) == [found |-> TRUE, w |-> p[1], h |-> p[2]]

\* lines 143-147: the loop over the matches; largest is never assigned in it
RECURSIVE LargestLoop(_, _, _, _, _)
LargestLoop(matches, i, largest, rx, ry) ==
    IF i > Len(matches) THEN <<rx, ry>>
    ELSE IF matches[i][1] * matches[i][2] > largest
         THEN LargestLoop(matches, i + 1, largest,
                          PyStr(matches[i][1]), PyStr(matches[i][2]))
         ELSE LargestLoop(matches, i + 1, largest, rx, ry)

find_resolution(rt, fx, fy, out) ==
    IF rt = "default" THEN <<fx, fy>>
    ELSE
      LET found ==
            IF rt = "largest"
            THEN LargestLoop(out.connected, 1, 0, PyInt(0), PyInt(0))
            ELSE IF out.current.found
                 THEN <<PyStr(out.current.w), PyStr(out.current.h)>>
                 ELSE <<PyInt(0), PyInt(0)>>
          res == IF PyEq(found[1], PyInt(0)) \/ PyEq(found[2], PyInt(0))
                 THEN <<PyInt(fx), PyInt(fy)>>
                 ELSE found
      IN <<ToInt(res[1]), ToInt(res[2])>>

\* xrandr is run only when the mode is not default
Outputs(rt) ==
    CASE rt = "largest" ->
           { [connected |-> s, current |-> NoMatch] : s \in SeqsUpTo(ConnectedPairs, MaxOutputs) }
      [] rt = "stretch" ->
           { [connected |-> <<>>, current |-> c] :
                 c \in {NoMatch} \cup { Match(p) : p \in CurrentPairs } }
      [] OTHER -> { [connected |-> <<>>, current |-> NoMatch] }

NoOutput == [connected |-> <<>>, current |-> NoMatch]

FindResolution ==
    /\ pcRes = "call"
    /\ ret' = find_resolution(res_type, x, y, output)
    /\ pcRes' = "returned"
    /\ UNCHANGED <<res_type, x, y, output>>
    /\ UNCHANGED runVars


(***************************************************************************)
(* The site and the image directory.                                       *)
(***************************************************************************)
None == "None"
XmlPath == "nasa_apod_desktop_backgrounds.xml"

\* lines 225, 235: a declared size below this is taken for an error page
Threshold == 500

\* the images the directory may hold, and those a page may refer to
Stems == {"a", "b", "c", "d"}
HrefStems == {"a", "b"}
Sizes == {Threshold - 1, Threshold}
Codes == {"404", "503"}

\* line 221: os.path.splitext(filename)[0] + ".png"
PngOf(name) == name.stem \o ".png"
PngFiles == { PngOf([stem |-> s, ext |-> ".jpg"]) : s \in Stems }

\* What a regex of get_image_info finds in a page: nothing, or a reference
\* with the content-length its server declares (up: the server answers).
NoRef == [found |-> FALSE, stem |-> "", ext |-> "", size |-> 0, up |-> FALSE]
Ref(s, e, z, u) == [found |-> TRUE, stem |-> s, ext |-> e, size |-> z, up |-> u]
HrefRefs == {NoRef} \cup { Ref(s, ".jpg", z, TRUE) : s \in HrefStems, z \in Sizes }
                    \cup { Ref(s, ".jpg", 0, FALSE) : s \in HrefStems }
SrcRefs == {NoRef} \cup { Ref("small", ".jpg", z, TRUE) : z \in Sizes }
                   \cup { Ref("small", ".jpg", 0, FALSE) }

Page(t, h, s) == [text |-> t, href |-> h, src |-> s]
Unset == Page("", NoRef, NoRef)
Pages == { Page("<html>", h, s) : h \in HrefRefs, s \in SrcRefs }

\* What the server does with a request for a page.
Responses ==
    { [status |-> "ok", code |-> "", page |-> p] : p \in Pages }
      \cup { [status |-> "http_error", code |-> c, page |-> Unset] : c \in Codes }
      \cup { [status |-> "url_error", code |-> "", page |-> Unset] }

\* lines 190-202: only urllib2.HTTPError is caught, and its reply is the
\* text "Error: <code>", in which no regex of get_image_info matches
download_site(resp) ==
    CASE resp.status = "ok" -> [raised |-> FALSE, reply |-> resp.page]
      [] resp.status = "http_error" ->
           [raised |-> FALSE, reply |-> Page("Error: " \o resp.code, NoRef, NoRef)]
      [] OTHER -> [raised |-> TRUE, reply |-> Unset]

\* lines 414-441
get_image_info(element, text) ==
    LET ref == IF element = "a href" THEN text.href ELSE text.src IN
    IF ~ref.found
    THEN [raised |-> FALSE, file_url |-> None, filename |-> NoRef,
          file_size |-> 0, opened |-> 0]
    ELSE IF ~ref.up
    THEN [raised |-> TRUE, file_url |-> None, filename |-> NoRef,
          file_size |-> 0, opened |-> 1]
    ELSE [raised |-> FALSE, file_url |-> ref.stem \o ref.ext, filename |-> ref,
          file_size |-> ref.size, opened |-> 1]

\* a variant of line 223 that looks for a path that is never there
isfile_other_path(path, dsk) == FALSE
\* line 223: os.path.isfile(save_to)
isfile(path, dsk) == path \in dsk

Got(o, v, dsk, op, rt, st, sv, wr) ==
    [outcome |-> o, value |-> v, disk |-> dsk, opened |-> op, retrieved |-> rt,
     src_tries |-> st, save_to |-> sv, wrote |-> wr]

\* lines 206-253.  outcome: "return" (value: None or save_to), "exit" (line
\* 239) or "raise" (urlopen failed)
get_image(text, dsk) ==
    LET first == get_image_info("a href", text) IN
    IF first.raised THEN Got("raise", None, dsk, first.opened, 0, 0, None, {})
    ELSE IF first.file_url = None THEN Got("return", None, dsk, 0, 0, 0, None, {})
    ELSE
      LET save_to == PngOf(first.filename) IN
      IF isfile(save_to, dsk)
      THEN Got("return", save_to, dsk, first.opened, 0, 0, save_to, {})
      ELSE IF first.file_size < Threshold
      THEN LET second == get_image_info("img src", text)
               opened == first.opened + second.opened
           IN IF second.raised THEN Got("raise", None, dsk, opened, 0, 1, save_to, {})
              ELSE IF second.file_url = None
              THEN Got("return", None, dsk, opened, 0, 1, save_to, {})
              ELSE IF second.file_size < Threshold
              THEN Got("exit", None, dsk, opened, 0, 1, save_to, {})
              ELSE Got("return", save_to, dsk \cup {save_to}, opened, 1, 1,
                       save_to, {save_to})
      ELSE Got("return", save_to, dsk \cup {save_to}, first.opened, 1, 0,
               save_to, {save_to})

\* line 206-208: get_image has three parameters without a default; a call
\* that gives fewer raises TypeError before the body runs
RequiredArgs == 3
call_get_image(args, dsk) ==
    IF Len(args) < RequiredArgs
    THEN Got("raise", None, dsk, 0, 0, 0, None, {})
    ELSE get_image(args[1], dsk)

\* lines 471-473: main's call
main_call_args(text) == <<text, "DOWNLOAD_PATH", "NASA_APOD_SITE", "SHOW_DEBUG">>
\* a variant of line 357 that gives get_image all its arguments
seed_call_args_full(text) == <<text, "DOWNLOAD_PATH", "NASA_APOD_SITE", "SHOW_DEBUG">>
\* line 357: the seed walk's call, get_image(seed_site_contents)
seed_call_args(text) == <<text>>

\* lines 256-277: afterwards the file has the target dimensions
resize_image(file, scl) == scl \cup {file}

\* every order of the elements of a set
RECURSIVE Orders(_)
Orders(S) ==
    IF S = {} THEN { <<>> }
    ELSE UNION { { <<e>> \o t : t \in Orders(S \ {e}) } : e \in S }

\* line 333: glob.glob gives the files in an order of its own
glob(dsk) == Orders(dsk)

\* line 372: random.shuffle gives any order of the list's entries
shuffle(imgs) ==
    { [i \in 1..Len(imgs) |-> imgs[o[i]]] : o \in Orders(1..Len(imgs)) }

\* a variant of lines 402-406 whose last entry does not go back to the first
TransitionTo_no_wrap(imgs, i) == IF i = Len(imgs) THEN imgs[i] ELSE imgs[i + 1]
\* lines 402-406 (i counts from 1 here)
TransitionTo(imgs, i) == IF i = Len(imgs) THEN imgs[1] ELSE imgs[i + 1]

\* lines 376-406: one static and one transition element per image
Slides(imgs, dur) ==
    [i \in 1..Len(imgs) |->
        [duration |-> dur, file |-> imgs[i], transition_duration |-> "5",
         from |-> imgs[i], to |-> TransitionTo(imgs, i)]]

Terminal == {"done", "exited", "raised"}
NoCall == [called |-> FALSE, existed |-> FALSE, outcome |-> "", value |-> None,
           save_to |-> None, wrote |-> {}]
NoNet == [opened |-> 0, retrieved |-> 0, src_tries |-> 0]
AddNet(n, g) == [opened |-> n.opened + g.opened,
                 retrieved |-> n.retrieved + g.retrieved,
                 src_tries |-> n.src_tries + g.src_tries]

(***************************************************************************)
(* main, lines 463-501, and create_desktop_background_scoll.               *)
(***************************************************************************)
\* lines 464-468: the reply is compared with the text "error"
MainFetch ==
    /\ pc = "fetch_today"
    /\ \E resp \in Responses :
         LET r == download_site(resp) IN
         IF r.raised
         THEN pc' = "raised" /\ UNCHANGED site_contents
         ELSE /\ site_contents' = r.reply
              /\ pc' = IF r.reply.text = "error" THEN "exited" ELSE "get_today"
    /\ UNCHANGED <<IMAGE_SCROLL, SEED_IMAGES, IMAGE_DURATION, disk, scaled, filename,
                   images, days_back, seed_images_left, seed_site_contents, xml,
                   wallpaper, net, today>>
    /\ UNCHANGED resVars

\* lines 471-476: get_image, then resize_image when it gave a file
MainGetImage ==
    /\ pc = "get_today"
    /\ LET g == call_get_image(main_call_args(site_contents), disk) IN
         /\ net' = AddNet(net, g)
         /\ today' = [called |-> TRUE,
                      existed |-> /\ site_contents.href.found
                                  /\ PngOf(site_contents.href) \in disk,
                      outcome |-> g.outcome, value |-> g.value,
                      save_to |-> g.save_to, wrote |-> g.wrote]
         /\ disk' = g.disk
         /\ IF g.outcome = "return"
            THEN /\ filename' = g.value
                 /\ scaled' = IF g.value # None THEN resize_image(g.value, scaled)
                              ELSE scaled
                 /\ pc' = "scroll"
            ELSE /\ pc' = IF g.outcome = "exit" THEN "exited" ELSE "raised"
                 /\ UNCHANGED <<filename, scaled>>
    /\ UNCHANGED <<IMAGE_SCROLL, SEED_IMAGES, IMAGE_DURATION, site_contents, images,
                   days_back, seed_images_left, seed_site_contents, xml, wallpaper>>
    /\ UNCHANGED resVars

\* lines 321-342: return at once without the slideshow; else list the PNGs
\* and decide whether to seed
ScrollStart ==
    /\ pc = "scroll"
    /\ IF ~IMAGE_SCROLL
       THEN /\ pc' = "wallpaper"
            /\ UNCHANGED <<filename, images, days_back, seed_images_left>>
       ELSE /\ filename' = XmlPath
            /\ \E listed \in glob(disk) :
                 /\ images' = listed
                 /\ IF Len(listed) < SEED_IMAGES
                    THEN /\ days_back' = 0
                         /\ seed_images_left' = SEED_IMAGES
                         /\ pc' = "seed"
                    ELSE /\ pc' = "build"
                         /\ UNCHANGED <<days_back, seed_images_left>>
    /\ UNCHANGED <<IMAGE_SCROLL, SEED_IMAGES, IMAGE_DURATION, disk, scaled,
                   site_contents, seed_site_contents, xml, wallpaper, net, today>>
    /\ UNCHANGED resVars

\* lines 343-367: one pass of the while loop
SeedDay ==
    /\ pc = "seed"
    /\ seed_images_left > 0
    /\ days_back < MaxDays
    /\ days_back' = days_back + 1
    /\ \E resp \in Responses :
         LET r == download_site(resp)
             g == call_get_image(seed_call_args(r.reply), disk)
         IN
         IF r.raised
         THEN /\ pc' = "raised"
              /\ UNCHANGED <<seed_site_contents, disk, scaled, images,
                             seed_images_left, net>>
         ELSE
           /\ seed_site_contents' = r.reply
           /\ IF r.reply.text = "error"
              THEN UNCHANGED <<pc, disk, scaled, images, seed_images_left, net>>
              ELSE
                /\ net' = AddNet(net, g)
                /\ disk' = g.disk
                /\ IF g.outcome # "return"
                   THEN /\ pc' = IF g.outcome = "exit" THEN "exited" ELSE "raised"
                        /\ UNCHANGED <<scaled, images, seed_images_left>>
                   ELSE IF g.value = None
                   THEN UNCHANGED <<pc, scaled, images, seed_images_left>>
                   ELSE /\ scaled' = resize_image(g.value, scaled)
                        /\ images' = Append(images, g.value)
                        /\ seed_images_left' = seed_images_left - 1
                        /\ pc' = IF seed_images_left - 1 > 0 THEN "seed" ELSE "build"
    /\ UNCHANGED <<IMAGE_SCROLL, SEED_IMAGES, IMAGE_DURATION, site_contents, filename,
                   xml, wallpaper, today>>
    /\ UNCHANGED resVars

\* lines 371-411: shuffle, build the elements, write the file
Build ==
    /\ pc = "build"
    /\ \E shuffled \in shuffle(images) :
         /\ images' = shuffled
         /\ xml' = [written |-> TRUE, entries |-> Slides(shuffled, IMAGE_DURATION)]
    /\ pc' = "wallpaper"
    /\ UNCHANGED <<IMAGE_SCROLL, SEED_IMAGES, IMAGE_DURATION, disk, scaled,
                   site_contents, filename, days_back, seed_images_left,
                   seed_site_contents, wallpaper, net, today>>
    /\ UNCHANGED resVars

\* lines 491-501: exit without a file name, else set_gnome_wallpaper
SetWallpaper ==
    /\ pc = "wallpaper"
    /\ IF filename = None
       THEN pc' = "exited" /\ UNCHANGED wallpaper
       ELSE pc' = "done" /\ wallpaper' = filename
    /\ UNCHANGED <<IMAGE_SCROLL, SEED_IMAGES, IMAGE_DURATION, disk, scaled,
                   site_contents, filename, images, days_back, seed_images_left,
                   seed_site_contents, xml, net, today>>
    /\ UNCHANGED resVars

(***************************************************************************)
(* Specifications.                                                         *)
(***************************************************************************)
RunIdle(p) ==
    /\ pc = p
    /\ site_contents = Unset
    /\ filename = None
    /\ images = <<>>
    /\ days_back = 0
    /\ seed_images_left = 0
    /\ seed_site_contents = Unset
    /\ xml = [written |-> FALSE, entries |-> <<>>]
    /\ wallpaper = None
    /\ net = NoNet
    /\ today = NoCall

\* find_resolution about to be called, on any input
InitRes ==
    /\ pcRes = "call"
    /\ res_type \in ResolutionTypes
    /\ \E p \in FallbackPairs : x = p[1] /\ y = p[2]
    /\ output \in Outputs(res_type)
    /\ ret = <<0, 0>>
    /\ IMAGE_SCROLL = FALSE /\ SEED_IMAGES = 0 /\ IMAGE_DURATION = 1200
    /\ disk = {} /\ scaled = {}
    /\ RunIdle("not_started")

NextRes == FindResolution

SpecRes == InitRes /\ [][NextRes]_vars

\* main at line 463: the resolution is found, the download folder exists
Init ==
    /\ pcRes = "returned"
    /\ res_type = "default"
    /\ x = 1024 /\ y = 768
    /\ output = NoOutput
    /\ ret = find_resolution("default", 1024, 768, NoOutput)
    /\ IMAGE_SCROLL \in BOOLEAN
    /\ SEED_IMAGES \in 0..MaxSeed
    /\ IMAGE_DURATION = 1200
    /\ disk \in SUBSET PngFiles
    \* an earlier run at this resolution scaled every file, or none has it
    /\ scaled \in {{}, disk}
    /\ RunIdle("fetch_today")

Next ==
    \/ MainFetch
    \/ MainGetImage
    \/ ScrollStart
    \/ SeedDay
    \/ Build
    \/ SetWallpaper

Spec == Init /\ [][Next]_vars

\* every call of the run returns, so the run goes on until it ends
FairSpec == Spec /\ WF_vars(Next)

(***************************************************************************)
(* The claims.                                                             *)
(***************************************************************************)
IsHttpErrorReply(p) == \E c \in Codes : p.text = "Error: " \o c
SubThreshold(ref) == ref.found /\ ref.up /\ ref.size < Threshold
\* the seed walk has fetched a page for the day it is at
SeedPageFetched == days_back >= 1 /\ seed_site_contents.text # ""
Files(entries) == { entries[i].file : i \in 1..Len(entries) }
Distinct(seq) == \A i, j \in 1..Len(seq) : seq[i] = seq[j] => i = j

\* C1 (as claimed): in the seed walk a failed day leaves seed_images_left
\* unchanged, a successful day takes one off, and the walk stops exactly
\* when seed_images_left is zero: once the walk has fetched a day's page and
\* stopped, seed_images_left = 0.
C1_WalkStopsAtZero ==
    (SeedPageFetched /\ pc # "seed") => seed_images_left = 0

\* C2 (as claimed): when today's save_to does not exist and the a-href
\* reference declares fewer than 500 bytes, get_image tries img-src exactly
\* once; when that gives nothing or fewer than 500 bytes too, nothing is
\* downloaded, no file appears, and get_image gives None for this day while
\* the run goes on.
C2_SubThresholdFailsTheDayOnly ==
    ( /\ today.called
      /\ IMAGE_SCROLL
      /\ SubThreshold(site_contents.href)
      /\ ~today.existed )
    => /\ net.src_tries = 1
       /\ (~site_contents.src.found \/ SubThreshold(site_contents.src))
            => /\ net.retrieved = 0
               /\ today.save_to \notin disk
               /\ today.outcome = "return"
               /\ today.value = None
               /\ pc \notin {"exited", "raised"}

\* the day's page is one of the failures C3 lists
DayFails(p) ==
    \/ IsHttpErrorReply(p)
    \/ p.text = "<html>" /\ ~p.href.found
    \/ /\ SubThreshold(p.href)
       /\ PngOf(p.href) \notin disk
       /\ (~p.src.found \/ SubThreshold(p.src))

\* C3 (as claimed): a seed day that fails (an HTTP error page, no image, or
\* both strategies under 500 bytes) is absorbed: the run neither exits nor
\* ends with an uncaught exception on that day.
C3_SeedFailuresAbsorbed ==
    (SeedPageFetched /\ DayFails(seed_site_contents))
    => pc \notin {"exited", "raised"}

\* C4 (as claimed): when today's save_to exists, get_image returns it with
\* no network request for the image at all (no size query, no download) and
\* without writing the file.
C4_CacheHitNoRequest ==
    (today.called /\ today.existed)
    => /\ net.opened = 0
       /\ net.retrieved = 0
       /\ today.wrote = {}

\* C4 (amended): when today's save_to exists, get_image makes exactly one
\* network request for the image, the size query of get_image_info for the
\* a-href reference; it downloads nothing and writes no file, and when the
\* query is answered it returns save_to.
C4_CacheHitOneSizeQuery ==
    (today.called /\ today.existed)
    => /\ net.opened = 1
       /\ net.retrieved = 0
       /\ net.src_tries = 0
       /\ today.wrote = {}
       /\ site_contents.href.up
            => /\ today.outcome = "return"
               /\ today.value = PngOf(site_contents.href)
       /\ ~site_contents.href.up => today.outcome = "raise"

C4_Witness ==
    /\ today.called /\ today.existed
    /\ today.outcome = "return"
    /\ today.value \in disk
    /\ pc = "scroll"

\* the entry of the playlist that leaves file f
EntryFrom(entries, f) == CHOOSE e \in { entries[i] : i \in 1..Len(entries) } : e.from = f
\* the k files met from f on, following each entry's to
RECURSIVE Walk(_, _, _)
Walk(entries, f, k) ==
    IF k = 0 THEN <<>>
    ELSE <<f>> \o Walk(entries, EntryFrom(entries, f).to, k - 1)

\* C5: a playlist written from N >= 1 distinct images has N entries; entry i
\* has file = from = images[i] and to = images[(i+1) mod N]; and from any
\* entry the to-chain meets every image once and comes back to the start.
C5_PlaylistIsOneCycle ==
    (xml.written /\ Len(images) >= 1 /\ Distinct(images))
    => LET e == xml.entries
           N == Len(images)
       IN /\ Len(e) = N
          /\ \A i \in 1..N :
               /\ e[i].file = images[i]
               /\ e[i].from = images[i]
               /\ e[i].to = images[(i % N) + 1]
          /\ \A s \in 1..N :
               LET w == Walk(e, e[s].file, N) IN
               /\ Distinct(w)
               /\ { w[k] : k \in 1..N } = { images[k] : k \in 1..N }
               /\ EntryFrom(e, w[N]).to = e[s].file

C5_Witness ==
    /\ xml.written
    /\ Len(images) = Cardinality(Stems)
    /\ Distinct(images)
    /\ xml.entries[Len(images)].to = images[1]

\* C6 (as claimed): a run that went into the slideshow writer ends with a
\* playlist that holds every PNG of the directory exactly once.
C6_PlaylistHoldsEachFileOnce ==
    (pc \in Terminal /\ filename = XmlPath /\ (days_back >= 1 => SeedPageFetched))
    => /\ xml.written
       /\ Len(xml.entries) = Cardinality(disk)
       /\ Files(xml.entries) = disk

Area(p) == p[1] * p[2]
\* the pair of greatest area, the first one seen winning ties
GreatestFirst(m) ==
    LET i == CHOOSE i \in 1..Len(m) :
                 /\ \A j \in 1..Len(m) : Area(m[j]) <= Area(m[i])
                 /\ \A j \in 1..(i - 1) : Area(m[j]) < Area(m[i])
    IN m[i]

\* C7 (as claimed): in largest mode, with at least one connected output and
\* none of area zero, find_resolution returns the pair of greatest area, the
\* first seen winning ties; for (1920,1080), (2560,1440), (1280,720) that is
\* (2560,1440).
C7_LargestReturnsGreatestArea ==
    ( /\ pcRes = "returned"
      /\ res_type = "largest"
      /\ Len(output.connected) >= 1
      /\ \A i \in 1..Len(output.connected) : Area(output.connected[i]) > 0 )
    => ret = GreatestFirst(output.connected)

\* C8 (as claimed): whatever the mode, the positive fallback pair and the
\* display's answer, find_resolution returns a positive width and a positive
\* height, and the fallback pair when the display gives no value.
C8_ResolutionIsPositive ==
    pcRes = "returned"
    => /\ ret[1] > 0 /\ ret[2] > 0
       /\ (res_type = "stretch" /\ ~output.current.found) => ret = <<x, y>>
       /\ (res_type = "largest" /\ output.connected = <<>>) => ret = <<x, y>>

\* C9 (as claimed): when the fetch of today's page ends in an HTTP error, the
\* run stops there: get_image is not called, no playlist is written and the
\* wallpaper is not set.
C9_TodayHttpErrorStopsTheRun ==
    IsHttpErrorReply(site_contents)
    => /\ ~today.called
       /\ ~xml.written
       /\ wallpaper = None

====
